---- MODULE Spec2Model ----
(***************************************************************************)
(* Model of the power-sequencing controller of bmcd                        *)
(* (src/hal/power_controller.rs).  The hardware the controller drives is   *)
(* the four enable lines and the four platform power-state attributes; a   *)
(* caller task runs set_power_node or reset_node, one step per suspension  *)
(* point of the async code.                                                *)
(***************************************************************************)
EXTENDS Integers, Sequences, FiniteSets, TLC

\* ------------------------------------------------------------------ bounds

\* Largest node_states value a caller passes in Spec.
MaxStates == 15
\* Largest node_mask value a caller passes in Spec (17 = bit 4 and bit 0).
MaxMask == 17

\* ---------------------------------------------------------------- constants

\* Number of enable lines held by the controller: enable: [Lines<Output>; 4].
NumLines == 4
\* u8::MAX, the largest value of node_states and node_mask.
MaxU8 == 255
\* Settle delay between the attribute write and the line set, in ms.
SettleMs == 100
\* Delay between the off phase and the on phase of a reset, in ms.
ResetMs == 1000

SYS_LED == "/sys/class/leds/fp::power/brightness"
SYS_LED_2_0_5 == "/sys/class/leds/fp:sys/brightness"
STATUS_LED == "/sys/class/leds/fp::status/brightness"
STATUS_LED_2_0_5 == "/sys/class/leds/fp:reset/brightness"
PORT1_EN == "node1-en"
PORT2_EN == "node2-en"
PORT3_EN == "node3-en"
PORT4_EN == "node4-en"

LedPaths == {SYS_LED, SYS_LED_2_0_5, STATUS_LED, STATUS_LED_2_0_5}
PortNames == {PORT1_EN, PORT2_EN, PORT3_EN, PORT4_EN}
Chips == {"/dev/gpiochip1", "/dev/gpiochip2"}

\* An error without context, and the absence of an error.
NoContext == ""

Tasks == {1, 2}
Nodes == 1..NumLines
LineIdx == 0..(NumLines - 1)
U8 == 0..MaxU8

\* ------------------------------------------------------------------ state

VARIABLES
    enable,        \* enable[idx]: value of the enable line of node idx+1
    power_state,   \* power_state[n]: content of /sys/.../node{n}-power/state
    pc,            \* pc[t]: the suspension point task t is at
    op,            \* op[t]: the public operation task t last called
    node_states,   \* node_states[t]: argument of the current set_power_node
    node_mask,     \* node_mask[t]: argument of the current set_power_node
    updates,       \* updates[t]: what is left of the bit_iterator
    log,           \* log[t]: events of the operation task t last called
    result,        \* result[t]: "Pending", "Ok", "Err" or "Panic"
    bits,          \* bits[t]: node.to_bitfield() of the current reset_node
    rphase,        \* rphase[t]: "none", or the phase of reset_node: "off", "on"
    prev,          \* prev[t]: outcome of the call this one repeats, or NoPrev
    ctl,           \* "none" before PowerController::new, then "ok" or "err"
    held,          \* indices of the enable array that hold a line handle
    sysfs_power,   \* the controller's field sysfs_power ("" without controller)
    sysfs_reset,   \* the controller's field sysfs_reset ("" without controller)
    exists,        \* the indicator paths that exist in the file system
    openable,      \* the line-group devices that can be opened
    line_names,    \* the line names in the table of the device
    led,           \* led[path]: content of the indicator attribute at path
    errctx         \* errctx[t]: context attached to the error task t got

hw == <<enable, power_state>>
envvars == <<ctl, held, sysfs_power, sysfs_reset, exists, openable, line_names, led>>
ctlvars == <<envvars, errctx>>
vars == <<enable, power_state, pc, op, node_states, node_mask, updates, log,
          result, bits, rphase, prev, ctl, held, sysfs_power, sysfs_reset,
          exists, openable, line_names, led, errctx>>

\* ------------------------------------------------------------ bit helpers

RECURSIVE Pow2(_)
Pow2(n) == IF n = 0 THEN 1 ELSE 2 * Pow2(n - 1)

\* x & (1 << n), for u8 operands
AndBit(x, n) == ((x \div Pow2(n)) % 2) * Pow2(n)

\* (x >> n), for u8 operands
Shr(x, n) == x \div Pow2(n)

\* bit_iterator yielding a pair for every node bit, masked or not.
RECURSIVE BitIterFrom_no_mask_test(_, _, _)
BitIterFrom_no_mask_test(nodes_state, nodes_mask, n) ==
    IF n >= NumLines THEN <<>>
    ELSE <<<<n, Shr(AndBit(nodes_state, n), n)>>>>
         \o BitIterFrom_no_mask_test(nodes_state, nodes_mask, n + 1)

\* bit_iterator going through all eight bits of the mask.
RECURSIVE BitIterFrom_eight_bits(_, _, _)
BitIterFrom_eight_bits(nodes_state, nodes_mask, n) ==
    IF n >= 8 THEN <<>>
    ELSE LET m == AndBit(nodes_mask, n)
             s == Shr(AndBit(nodes_state, n), n)
         IN  IF m # 0
             THEN <<<<n, s>>>> \o BitIterFrom_eight_bits(nodes_state, nodes_mask, n + 1)
             ELSE BitIterFrom_eight_bits(nodes_state, nodes_mask, n + 1)

\* helpers::bit_iterator: one (index, state) pair per set mask bit among the
\* four node bits, ascending; state = (nodes_state & mask) >> n restricted to
\* that bit.
RECURSIVE BitIterFrom(_, _, _)
BitIterFrom(nodes_state, nodes_mask, n) ==
    IF n >= NumLines THEN <<>>
    ELSE LET m == AndBit(nodes_mask, n)
             s == Shr(AndBit(nodes_state, n), n)
         IN  IF m # 0
             THEN <<<<n, s>>>> \o BitIterFrom(nodes_state, nodes_mask, n + 1)
             ELSE BitIterFrom(nodes_state, nodes_mask, n + 1)

bit_iterator(nodes_state, nodes_mask) == BitIterFrom(nodes_state, nodes_mask, 0)

\* NodeId::to_bitfield: the one-hot field of node k (1..4).
to_bitfield(k) == Pow2(k - 1)

\* set_mode writing "enabled" only for a state above 1.
node_value_above_one(node_state) == IF node_state > 1 THEN "enabled" ELSE "disabled"

\* set_mode's token: "enabled" when node_state > 0.
node_value(node_state) == IF node_state > 0 THEN "enabled" ELSE "disabled"

\* ------------------------------------------------------------------ events

\* set_mode's sys_path for node_id.
sys_path(node_id) ==
    "/sys/bus/platform/devices/node" \o ToString(node_id) \o "-power/state"

CallEv(s, m) ==
    [ev |-> "call", n |-> s, v |-> m, tok |-> "", path |-> "", ok |-> TRUE]
AttrEv(n, s, okay) ==
    [ev |-> "attr", n |-> n, v |-> s, tok |-> node_value(s),
     path |-> sys_path(n), ok |-> okay]
SleepEv(ms) ==
    [ev |-> "sleep", n |-> ms, v |-> 0, tok |-> "", path |-> "", ok |-> TRUE]
LineEv(idx, s, okay) ==
    [ev |-> "line", n |-> idx, v |-> s, tok |-> "", path |-> "", ok |-> okay]
ResetEv(k) ==
    [ev |-> "reset", n |-> k, v |-> 0, tok |-> "", path |-> "", ok |-> TRUE]
\* PowerController::new(is_latching_system)
NewEv(is_latching_system) ==
    [ev |-> "new", n |-> IF is_latching_system THEN 1 ELSE 0, v |-> 0,
     tok |-> "", path |-> "", ok |-> TRUE]
\* Chip::new(chip)
OpenEv(chip, okay) ==
    [ev |-> "open", n |-> 0, v |-> 0, tok |-> "", path |-> chip, ok |-> okay]
\* lines.get(name), for the name of enable[idx]
GetEv(idx, name, okay) ==
    [ev |-> "get", n |-> idx, v |-> 0, tok |-> name, path |-> "", ok |-> okay]
\* the request of the line of enable[idx] as an output
RequestEv(idx, okay) ==
    [ev |-> "request", n |-> idx, v |-> 0, tok |-> "", path |-> "", ok |-> okay]
\* sysfs.exists()
ExistsEv(p, found) ==
    [ev |-> "exists", n |-> 0, v |-> IF found THEN 1 ELSE 0, tok |-> "",
     path |-> p, ok |-> TRUE]
\* tokio::fs::write(path, token)
LedEv(p, token, okay) ==
    [ev |-> "led", n |-> 0, v |-> 0, tok |-> token, path |-> p, ok |-> okay]

NoPrev == [log |-> <<>>, enable |-> <<>>, power_state |-> <<>>, set |-> FALSE]

\* A controller built on a board that has both devices, the four lines and
\* the primary indicator paths.
Constructed ==
    /\ ctl = "ok"
    /\ held = LineIdx
    /\ sysfs_power = SYS_LED
    /\ sysfs_reset = STATUS_LED
    /\ exists = {SYS_LED, STATUS_LED}
    /\ openable = Chips
    /\ line_names = PortNames
    /\ led = [p \in LedPaths |-> ""]
    /\ errctx = [t \in Tasks |-> NoContext]

\* ------------------------------------------------------------------- Init

Init ==
    /\ enable \in [LineIdx -> {0, 1}]
    /\ power_state \in [Nodes -> {"enabled", "disabled"}]
    /\ pc = [t \in Tasks |-> "idle"]
    /\ op = [t \in Tasks |-> "none"]
    /\ node_states = [t \in Tasks |-> 0]
    /\ node_mask = [t \in Tasks |-> 0]
    /\ updates = [t \in Tasks |-> <<>>]
    /\ log = [t \in Tasks |-> <<>>]
    /\ result = [t \in Tasks |-> "Pending"]
    /\ bits = [t \in Tasks |-> 0]
    /\ rphase = [t \in Tasks |-> "none"]
    /\ prev = [t \in Tasks |-> NoPrev]
    /\ Constructed

\* ---------------------------------------------------------- set_power_node

\* reset_node that goes on to its wait and on phase whatever the off phase
\* returned.
Return_ignore_off_error(t, ph, r) ==
    IF ph = "off"
    THEN /\ pc' = [pc EXCEPT ![t] = "reset_sleep"]
         /\ result' = [result EXCEPT ![t] = "Pending"]
    ELSE /\ pc' = [pc EXCEPT ![t] = "done"]
         /\ result' = [result EXCEPT ![t] = r]

\* set_power_node returns r to its caller: reset_node goes on to its 1 s
\* sleep after an Ok off phase and otherwise returns r itself (the ? operator).
Return(t, ph, r) ==
    IF ph = "off" /\ r = "Ok"
    THEN /\ pc' = [pc EXCEPT ![t] = "reset_sleep"]
         /\ result' = [result EXCEPT ![t] = "Pending"]
    ELSE /\ pc' = [pc EXCEPT ![t] = "done"]
         /\ result' = [result EXCEPT ![t] = r]

\* The head of the for loop: the next pair of the iterator, or Ok(()).
LoopHead(t, ph, rest) ==
    /\ updates' = [updates EXCEPT ![t] = rest]
    /\ IF rest = <<>>
       THEN Return(t, ph, "Ok")
       ELSE /\ pc' = [pc EXCEPT ![t] = "set_mode"]
            /\ result' = [result EXCEPT ![t] = "Pending"]

\* lg in reverse order.
Reverse(lg) == [i \in 1..Len(lg) |-> lg[Len(lg) + 1 - i]]

\* set_power_node going through the nodes in descending order.
set_power_node_descending(t, ph, s, m, lg) ==
    /\ node_states' = [node_states EXCEPT ![t] = s]
    /\ node_mask' = [node_mask EXCEPT ![t] = m]
    /\ log' = [log EXCEPT ![t] = Append(lg, CallEv(s, m))]
    /\ LoopHead(t, ph, Reverse(bit_iterator(s, m)))

\* set_power_node leaving out the nodes whose line already has the value.
set_power_node_skip_unchanged(t, ph, s, m, lg) ==
    /\ node_states' = [node_states EXCEPT ![t] = s]
    /\ node_mask' = [node_mask EXCEPT ![t] = m]
    /\ log' = [log EXCEPT ![t] = Append(lg, CallEv(s, m))]
    /\ LET Changes(u) == u[1] \in LineIdx => enable[u[1]] # u[2]
       IN  LoopHead(t, ph, SelectSeq(bit_iterator(s, m), Changes))

\* Entry of set_power_node(s, m), up to its first suspension point.
set_power_node(t, ph, s, m, lg) ==
    /\ node_states' = [node_states EXCEPT ![t] = s]
    /\ node_mask' = [node_mask EXCEPT ![t] = m]
    /\ log' = [log EXCEPT ![t] = Append(lg, CallEv(s, m))]
    /\ LoopHead(t, ph, bit_iterator(s, m))

\* A caller calls set_power_node(s, m).
CallSetPowerNode(t) ==
    /\ ctl = "ok"
    /\ pc[t] = "idle"
    /\ \E s \in 0..MaxStates, m \in 0..MaxMask :
        set_power_node(t, "none", s, m, <<>>)
    /\ op' = [op EXCEPT ![t] = "set_power_node"]
    /\ rphase' = [rphase EXCEPT ![t] = "none"]
    /\ bits' = [bits EXCEPT ![t] = 0]
    /\ prev' = [prev EXCEPT ![t] = NoPrev]
    /\ UNCHANGED hw
    /\ UNCHANGED ctlvars

\* A caller whose set_power_node(s, m) returned Ok calls it again with the
\* same arguments; prev keeps what the first call did and left.
RepeatSetPowerNode(t) ==
    /\ pc[t] = "done"
    /\ op[t] = "set_power_node"
    /\ result[t] = "Ok"
    /\ ~prev[t].set
    /\ prev' = [prev EXCEPT ![t] = [log |-> log[t], enable |-> enable,
                                   power_state |-> power_state, set |-> TRUE]]
    /\ set_power_node(t, "none", node_states[t], node_mask[t], <<>>)
    /\ UNCHANGED <<hw, op, rphase, bits>>
    /\ UNCHANGED ctlvars

\* The caller takes the result of its call and is free to call again.
Finish(t) ==
    /\ pc[t] = "done"
    /\ pc' = [pc EXCEPT ![t] = "idle"]
    /\ op' = [op EXCEPT ![t] = "none"]
    /\ node_states' = [node_states EXCEPT ![t] = 0]
    /\ node_mask' = [node_mask EXCEPT ![t] = 0]
    /\ updates' = [updates EXCEPT ![t] = <<>>]
    /\ log' = [log EXCEPT ![t] = <<>>]
    /\ result' = [result EXCEPT ![t] = "Pending"]
    /\ bits' = [bits EXCEPT ![t] = 0]
    /\ rphase' = [rphase EXCEPT ![t] = "none"]
    /\ prev' = [prev EXCEPT ![t] = NoPrev]
    /\ UNCHANGED hw
    /\ errctx' = [errctx EXCEPT ![t] = NoContext]
    /\ UNCHANGED envvars

\* set_mode whose failure is dropped instead of returned.
SetMode_ignore_error(t) ==
    /\ pc[t] = "set_mode"
    /\ LET idx == Head(updates[t])[1]
           state == Head(updates[t])[2]
           node_id == idx + 1
       IN \E okay \in BOOLEAN :
            /\ log' = [log EXCEPT ![t] = Append(@, AttrEv(node_id, state, okay))]
            /\ power_state' =
                 IF okay /\ node_id \in Nodes
                 THEN [power_state EXCEPT ![node_id] = node_value(state)]
                 ELSE power_state
            /\ pc' = [pc EXCEPT ![t] = "sleep"]
    /\ UNCHANGED <<enable, op, node_states, node_mask, updates, result, bits,
                   rphase, prev>>
    /\ UNCHANGED ctlvars

\* set_mode followed by the line set without the settle delay.
SetMode_no_delay(t) ==
    /\ pc[t] = "set_mode"
    /\ LET idx == Head(updates[t])[1]
           state == Head(updates[t])[2]
           node_id == idx + 1
       IN \E okay \in BOOLEAN :
            /\ log' = [log EXCEPT ![t] = Append(@, AttrEv(node_id, state, okay))]
            /\ IF okay
               THEN /\ power_state' =
                        IF node_id \in Nodes
                        THEN [power_state EXCEPT ![node_id] = node_value(state)]
                        ELSE power_state
                    /\ pc' = [pc EXCEPT ![t] = "set_values"]
                    /\ result' = result
               ELSE /\ power_state' = power_state
                    /\ Return(t, rphase[t], "Err")
    /\ UNCHANGED <<enable, op, node_states, node_mask, updates, bits, rphase, prev>>
    /\ UNCHANGED ctlvars

\* set_mode(idx + 1, state).await: the write of the power-state attribute
\* succeeds or fails; a failure is returned by the ? operator.
SetMode(t) ==
    /\ pc[t] = "set_mode"
    /\ LET idx == Head(updates[t])[1]
           state == Head(updates[t])[2]
           node_id == idx + 1
       IN \E okay \in BOOLEAN :
            /\ log' = [log EXCEPT ![t] = Append(@, AttrEv(node_id, state, okay))]
            /\ IF okay
               THEN /\ power_state' =
                        IF node_id \in Nodes
                        THEN [power_state EXCEPT ![node_id] = node_value(state)]
                        ELSE power_state
                    /\ pc' = [pc EXCEPT ![t] = "sleep"]
                    /\ result' = result
               ELSE /\ power_state' = power_state
                    /\ Return(t, rphase[t], "Err")
    /\ UNCHANGED <<enable, op, node_states, node_mask, updates, bits, rphase, prev>>
    /\ UNCHANGED ctlvars

\* sleep(Duration::from_millis(100)).await
Sleep(t) ==
    /\ pc[t] = "sleep"
    /\ log' = [log EXCEPT ![t] = Append(@, SleepEv(SettleMs))]
    /\ pc' = [pc EXCEPT ![t] = "set_values"]
    /\ UNCHANGED <<hw, op, node_states, node_mask, updates, result, bits,
                   rphase, prev>>
    /\ UNCHANGED ctlvars

\* set_values whose failure is dropped instead of returned.
SetValues_ignore_error(t) ==
    /\ pc[t] = "set_values"
    /\ LET idx == Head(updates[t])[1]
           state == Head(updates[t])[2]
       IN IF idx \notin LineIdx
          THEN /\ log' = [log EXCEPT ![t] = Append(@, LineEv(idx, state, FALSE))]
               /\ pc' = [pc EXCEPT ![t] = "done"]
               /\ result' = [result EXCEPT ![t] = "Panic"]
               /\ UNCHANGED <<enable, updates>>
          ELSE \E okay \in BOOLEAN :
               /\ log' = [log EXCEPT ![t] = Append(@, LineEv(idx, state, okay))]
               /\ enable' = IF okay THEN [enable EXCEPT ![idx] = state] ELSE enable
               /\ LoopHead(t, rphase[t], Tail(updates[t]))
    /\ UNCHANGED <<power_state, op, node_states, node_mask, bits, rphase, prev>>
    /\ UNCHANGED ctlvars

\* set_values left out when the line already has the value.
SetValues_skip_if_set(t) ==
    /\ pc[t] = "set_values"
    /\ LET idx == Head(updates[t])[1]
           state == Head(updates[t])[2]
       IN IF idx \notin LineIdx
          THEN /\ log' = [log EXCEPT ![t] = Append(@, LineEv(idx, state, FALSE))]
               /\ pc' = [pc EXCEPT ![t] = "done"]
               /\ result' = [result EXCEPT ![t] = "Panic"]
               /\ UNCHANGED <<enable, updates>>
          ELSE IF enable[idx] = state
          THEN /\ log' = log
               /\ enable' = enable
               /\ LoopHead(t, rphase[t], Tail(updates[t]))
          ELSE \E okay \in BOOLEAN :
               /\ log' = [log EXCEPT ![t] = Append(@, LineEv(idx, state, okay))]
               /\ IF okay
                  THEN /\ enable' = [enable EXCEPT ![idx] = state]
                       /\ LoopHead(t, rphase[t], Tail(updates[t]))
                  ELSE /\ enable' = enable
                       /\ updates' = updates
                       /\ Return(t, rphase[t], "Err")
    /\ UNCHANGED <<power_state, op, node_states, node_mask, bits, rphase, prev>>
    /\ UNCHANGED ctlvars

\* self.enable[idx].set_values(state)?: indexing outside the array panics;
\* the set succeeds or fails; then the loop goes to its next pair.
SetValues(t) ==
    /\ pc[t] = "set_values"
    /\ LET idx == Head(updates[t])[1]
           state == Head(updates[t])[2]
       IN IF idx \notin LineIdx
          THEN /\ log' = [log EXCEPT ![t] = Append(@, LineEv(idx, state, FALSE))]
               /\ pc' = [pc EXCEPT ![t] = "done"]
               /\ result' = [result EXCEPT ![t] = "Panic"]
               /\ UNCHANGED <<enable, updates>>
          ELSE \E okay \in BOOLEAN :
               /\ log' = [log EXCEPT ![t] = Append(@, LineEv(idx, state, okay))]
               /\ IF okay
                  THEN /\ enable' = [enable EXCEPT ![idx] = state]
                       /\ LoopHead(t, rphase[t], Tail(updates[t]))
                  ELSE /\ enable' = enable
                       /\ updates' = updates
                       /\ Return(t, rphase[t], "Err")
    /\ UNCHANGED <<power_state, op, node_states, node_mask, bits, rphase, prev>>
    /\ UNCHANGED ctlvars

\* --------------------------------------------------------------- reset_node

\* reset_node that switches the node on first and off after the wait.
CallResetNode_on_first(t) ==
    /\ ctl = "ok"
    /\ pc[t] = "idle"
    /\ \E k \in Nodes :
        /\ bits' = [bits EXCEPT ![t] = to_bitfield(k)]
        /\ set_power_node(t, "off", to_bitfield(k), to_bitfield(k), <<ResetEv(k)>>)
    /\ op' = [op EXCEPT ![t] = "reset_node"]
    /\ rphase' = [rphase EXCEPT ![t] = "off"]
    /\ prev' = [prev EXCEPT ![t] = NoPrev]
    /\ UNCHANGED hw
    /\ UNCHANGED ctlvars

\* A caller calls reset_node(NodeId(k)): the off phase starts.
CallResetNode(t) ==
    /\ ctl = "ok"
    /\ pc[t] = "idle"
    /\ \E k \in Nodes :
        /\ bits' = [bits EXCEPT ![t] = to_bitfield(k)]
        /\ set_power_node(t, "off", 0, to_bitfield(k), <<ResetEv(k)>>)
    /\ op' = [op EXCEPT ![t] = "reset_node"]
    /\ rphase' = [rphase EXCEPT ![t] = "off"]
    /\ prev' = [prev EXCEPT ![t] = NoPrev]
    /\ UNCHANGED hw
    /\ UNCHANGED ctlvars

\* sleep(Duration::from_secs(1)).await, then the on phase starts.
ResetSleep(t) ==
    /\ pc[t] = "reset_sleep"
    /\ rphase' = [rphase EXCEPT ![t] = "on"]
    /\ set_power_node(t, "on", bits[t], bits[t], Append(log[t], SleepEv(ResetMs)))
    /\ UNCHANGED <<hw, op, bits, prev>>
    /\ UNCHANGED ctlvars

\* Every step of the sequence evs succeeded.
FailureFree_(evs) == \A p \in 1..Len(evs) : evs[p].ok

\* ---------------------------------------------------------- construction

\* The name of the line of enable[idx].
PortName(idx) == <<PORT1_EN, PORT2_EN, PORT3_EN, PORT4_EN>>[idx + 1]

\* fallback_if_not_exist taking the fallback only when it exists.
fallback_if_not_exist_checks_fallback(sysfs, fallback) ==
    IF sysfs \notin exists /\ fallback \in exists THEN fallback ELSE sysfs

\* fallback_if_not_exist: the fallback when the primary path does not exist.
fallback_if_not_exist(sysfs, fallback) ==
    IF sysfs \notin exists THEN fallback ELSE sysfs

\* The existence checks fallback_if_not_exist makes: sysfs.exists() alone.
ExistsChecks(sysfs, fallback) == <<ExistsEv(sysfs, sysfs \in exists)>>

\* The lookups of new, in order, up to the first name that is missing.
RECURSIVE Lookups(_)
Lookups(idx) ==
    IF idx \notin LineIdx THEN <<>>
    ELSE IF PortName(idx) \in line_names
         THEN <<GetEv(idx, PortName(idx), TRUE)>> \o Lookups(idx + 1)
         ELSE <<GetEv(idx, PortName(idx), FALSE)>>

\* The requests of the four lines as outputs, up to the first one refused.
RECURSIVE Requests(_, _)
Requests(idx, refused) ==
    IF idx \notin LineIdx THEN <<>>
    ELSE IF idx \in refused THEN <<RequestEv(idx, FALSE)>>
         ELSE <<RequestEv(idx, TRUE)>> \o Requests(idx + 1, refused)

\* PowerController::new giving a controller although a line is missing.
New_ignore_missing(t) ==
    /\ ctl = "none"
    /\ pc[t] = "idle"
    /\ \E is_latching_system \in BOOLEAN, refused \in SUBSET LineIdx :
        LET chip1 == IF is_latching_system THEN "/dev/gpiochip1"
                     ELSE "/dev/gpiochip2"
            opened == chip1 \in openable
            gets == IF opened THEN Lookups(0) ELSE <<>>
            found == opened
            reqs == IF found THEN Requests(0, refused) ELSE <<>>
            built == found /\ FailureFree_(reqs)
            checks == IF built
                      THEN ExistsChecks(SYS_LED, SYS_LED_2_0_5)
                           \o ExistsChecks(STATUS_LED, STATUS_LED_2_0_5)
                      ELSE <<>>
        IN  /\ log' = [log EXCEPT ![t] =
                          <<NewEv(is_latching_system), OpenEv(chip1, opened)>>
                          \o gets \o reqs \o checks]
            /\ ctl' = IF built THEN "ok" ELSE "err"
            /\ held' = IF built
                       THEN {i \in LineIdx : PortName(i) \in line_names}
                       ELSE {}
            /\ sysfs_power' = IF built
                              THEN fallback_if_not_exist(SYS_LED, SYS_LED_2_0_5)
                              ELSE ""
            /\ sysfs_reset' = IF built
                              THEN fallback_if_not_exist(STATUS_LED, STATUS_LED_2_0_5)
                              ELSE ""
            /\ result' = [result EXCEPT ![t] = IF built THEN "Ok" ELSE "Err"]
            /\ errctx' = [errctx EXCEPT ![t] =
                            IF ~opened THEN chip1 ELSE NoContext]
    /\ op' = [op EXCEPT ![t] = "new"]
    /\ UNCHANGED <<hw, pc, node_states, node_mask, updates, bits, rphase, prev,
                   exists, openable, line_names, led>>

\* PowerController::new(is_latching_system): opens the device, looks the four
\* names up, requests the lines as outputs and resolves the indicator paths;
\* the first failure ends it without a controller.
New(t) ==
    /\ ctl = "none"
    /\ pc[t] = "idle"
    /\ \E is_latching_system \in BOOLEAN, refused \in SUBSET LineIdx :
        LET chip1 == IF is_latching_system THEN "/dev/gpiochip1"
                     ELSE "/dev/gpiochip2"
            opened == chip1 \in openable
            gets == IF opened THEN Lookups(0) ELSE <<>>
            found == opened /\ FailureFree_(gets)
            reqs == IF found THEN Requests(0, refused) ELSE <<>>
            built == found /\ FailureFree_(reqs)
            checks == IF built
                      THEN ExistsChecks(SYS_LED, SYS_LED_2_0_5)
                           \o ExistsChecks(STATUS_LED, STATUS_LED_2_0_5)
                      ELSE <<>>
        IN  /\ log' = [log EXCEPT ![t] =
                          <<NewEv(is_latching_system), OpenEv(chip1, opened)>>
                          \o gets \o reqs \o checks]
            /\ ctl' = IF built THEN "ok" ELSE "err"
            /\ held' = IF built THEN LineIdx ELSE {}
            /\ sysfs_power' = IF built
                              THEN fallback_if_not_exist(SYS_LED, SYS_LED_2_0_5)
                              ELSE ""
            /\ sysfs_reset' = IF built
                              THEN fallback_if_not_exist(STATUS_LED, STATUS_LED_2_0_5)
                              ELSE ""
            /\ result' = [result EXCEPT ![t] = IF built THEN "Ok" ELSE "Err"]
            /\ errctx' = [errctx EXCEPT ![t] =
                            IF ~opened THEN chip1
                            ELSE IF ~found
                                 THEN "cannot find PORT"
                                      \o ToString(Len(gets)) \o "_EN"
                                 ELSE NoContext]
    /\ op' = [op EXCEPT ![t] = "new"]
    /\ UNCHANGED <<hw, pc, node_states, node_mask, updates, bits, rphase, prev,
                   exists, openable, line_names, led>>

\* --------------------------------------------------------------- indicators

\* The literal power_led and status_led write.
led_token(on) == IF on THEN "1" ELSE "0"

\* An indicator write that resolves its path again at each call.
WriteLed_resolves_again(t, name, field, context) ==
    /\ ctl = "ok"
    /\ pc[t] = "idle"
    /\ \E on \in BOOLEAN, okay \in BOOLEAN :
        LET path == IF field \in {SYS_LED, SYS_LED_2_0_5}
                    THEN fallback_if_not_exist(SYS_LED, SYS_LED_2_0_5)
                    ELSE fallback_if_not_exist(STATUS_LED, STATUS_LED_2_0_5)
        IN  /\ okay => path \in exists
            /\ led' = IF okay THEN [led EXCEPT ![path] = led_token(on)] ELSE led
            /\ log' = [log EXCEPT ![t] = <<LedEv(path, led_token(on), okay)>>]
            /\ result' = [result EXCEPT ![t] = IF okay THEN "Ok" ELSE "Err"]
            /\ errctx' = [errctx EXCEPT ![t] = IF okay THEN NoContext ELSE context]
    /\ op' = [op EXCEPT ![t] = name]
    /\ pc' = [pc EXCEPT ![t] = "done"]
    /\ UNCHANGED <<hw, node_states, node_mask, updates, bits, rphase, prev,
                   ctl, held, sysfs_power, sysfs_reset, exists, openable,
                   line_names>>

\* A write of token to the indicator path field, with the context name
\* attached to its failure; the attribute only takes the write if it exists.
WriteLed(t, name, field, context) ==
    /\ ctl = "ok"
    /\ pc[t] = "idle"
    /\ \E on \in BOOLEAN, okay \in BOOLEAN :
        /\ okay => field \in exists
        /\ led' = IF okay THEN [led EXCEPT ![field] = led_token(on)] ELSE led
        /\ log' = [log EXCEPT ![t] = <<LedEv(field, led_token(on), okay)>>]
        /\ result' = [result EXCEPT ![t] = IF okay THEN "Ok" ELSE "Err"]
        /\ errctx' = [errctx EXCEPT ![t] = IF okay THEN NoContext ELSE context]
    /\ op' = [op EXCEPT ![t] = name]
    /\ pc' = [pc EXCEPT ![t] = "done"]
    /\ UNCHANGED <<hw, node_states, node_mask, updates, bits, rphase, prev,
                   ctl, held, sysfs_power, sysfs_reset, exists, openable,
                   line_names>>

\* power_led returning the bare I/O error.
PowerLed_no_context(t) == WriteLed(t, "power_led", sysfs_power, NoContext)

\* power_led(on)
PowerLed(t) == WriteLed(t, "power_led", sysfs_power, SYS_LED)

\* status_led(on)
StatusLed(t) == WriteLed(t, "status_led", sysfs_reset, STATUS_LED)

\* The file system changes: an indicator path appears or disappears.
FsChange ==
    /\ \E p \in LedPaths :
        exists' = IF p \in exists THEN exists \ {p} ELSE exists \cup {p}
    /\ UNCHANGED <<hw, pc, op, node_states, node_mask, updates, log, result,
                   bits, rphase, prev, ctl, held, sysfs_power, sysfs_reset,
                   openable, line_names, led, errctx>>

\* --------------------------------------------------------------- behaviour

Step(t) ==
    \/ CallSetPowerNode(t)
    \/ RepeatSetPowerNode(t)
    \/ Finish(t)
    \/ SetMode(t)
    \/ Sleep(t)
    \/ SetValues(t)
    \/ CallResetNode(t)
    \/ ResetSleep(t)

Next == \E t \in {1} : Step(t)

Spec == Init /\ [][Next]_vars

\* ------------------------------------------- every 8-bit (state, mask) pair

\* One call of set_power_node for each pair of u8 arguments, on a board whose
\* nodes are all off.
InitBits ==
    /\ enable = [i \in LineIdx |-> 0]
    /\ power_state = [n \in Nodes |-> "disabled"]
    /\ pc = [t \in Tasks |-> IF t = 1 THEN "enter" ELSE "idle"]
    /\ op = [t \in Tasks |-> IF t = 1 THEN "set_power_node" ELSE "none"]
    /\ \E s \in U8 : node_states = [t \in Tasks |-> IF t = 1 THEN s ELSE 0]
    /\ \E m \in U8 : node_mask = [t \in Tasks |-> IF t = 1 THEN m ELSE 0]
    /\ updates = [t \in Tasks |-> <<>>]
    /\ log = [t \in Tasks |-> <<>>]
    /\ result = [t \in Tasks |-> "Pending"]
    /\ bits = [t \in Tasks |-> 0]
    /\ rphase = [t \in Tasks |-> "none"]
    /\ prev = [t \in Tasks |-> NoPrev]
    /\ Constructed

\* The call whose arguments Init chose enters set_power_node.
Enter(t) ==
    /\ pc[t] = "enter"
    /\ set_power_node(t, "none", node_states[t], node_mask[t], <<>>)
    /\ UNCHANGED <<hw, op, bits, rphase, prev>>
    /\ UNCHANGED ctlvars

NextBits ==
    \/ Enter(1)
    \/ SetMode(1)
    \/ Sleep(1)
    \/ SetValues(1)

SpecBits == InitBits /\ [][NextBits]_vars

\* ------------------------------------------------- construction and one call

\* Before PowerController::new, on any board: either device may be missing,
\* as may any line name and any indicator path; the nodes are off.
InitNew ==
    /\ enable = [i \in LineIdx |-> 0]
    /\ power_state = [n \in Nodes |-> "disabled"]
    /\ pc = [t \in Tasks |-> "idle"]
    /\ op = [t \in Tasks |-> "none"]
    /\ node_states = [t \in Tasks |-> 0]
    /\ node_mask = [t \in Tasks |-> 0]
    /\ updates = [t \in Tasks |-> <<>>]
    /\ log = [t \in Tasks |-> <<>>]
    /\ result = [t \in Tasks |-> "Pending"]
    /\ bits = [t \in Tasks |-> 0]
    /\ rphase = [t \in Tasks |-> "none"]
    /\ prev = [t \in Tasks |-> NoPrev]
    /\ ctl = "none"
    /\ held = {}
    /\ sysfs_power = ""
    /\ sysfs_reset = ""
    /\ exists \in SUBSET LedPaths
    /\ openable \in SUBSET Chips
    /\ line_names \in SUBSET PortNames
    /\ led = [p \in LedPaths |-> ""]
    /\ errctx = [t \in Tasks |-> NoContext]

\* The construction, then one call of an operation.
NextNew ==
    \/ New(1)
    \/ CallSetPowerNode(1)
    \/ PowerLed(1)
    \/ StatusLed(1)
    \/ CallResetNode(1)
    \/ SetMode(1)
    \/ Sleep(1)
    \/ SetValues(1)
    \/ ResetSleep(1)

SpecNew == InitNew /\ [][NextNew]_vars

\* The construction, then indicator calls while the file system changes.
NextLed ==
    \/ New(1)
    \/ FsChange
    \/ PowerLed(1)
    \/ StatusLed(1)
    \/ Finish(1)

SpecLed == InitNew /\ [][NextLed]_vars

\* ------------------------------------------------------- reading the log

\* Position of the last "call" event of lg: the start of the set_power_node
\* call in progress or last returned (0 when lg is empty).
CallStart(lg) ==
    IF \E p \in 1..Len(lg) : lg[p].ev = "call"
    THEN CHOOSE p \in 1..Len(lg) :
            /\ lg[p].ev = "call"
            /\ \A q \in (p + 1)..Len(lg) : lg[q].ev # "call"
    ELSE 0

\* p and q are positions of the same set_power_node call of lg.
SameCall(lg, p, q) ==
    \A r \in 1..Len(lg) : lg[r].ev = "call" => (r <= p <=> r <= q)

\* Bit n of the u8 x, as 0 or 1.
BitOf(x, n) == (x \div Pow2(n)) % 2

\* ------------------------------------------------------------------ claims

\* C1: an enable line is only ever set right after the settle delay, which
\* itself comes right after a successful write of the same node's power-state
\* attribute with the token of the same desired value, in the same call.
C1_AnnounceDelayToggle ==
    \A t \in Tasks : \A p \in 1..Len(log[t]) :
        log[t][p].ev = "line" =>
            /\ p >= 4
            /\ log[t][p - 1] = SleepEv(SettleMs)
            /\ log[t][p - 2] = AttrEv(log[t][p].n + 1, log[t][p].v, TRUE)
            /\ SameCall(log[t], p - 2, p)

\* C1 witness: a call has set a line to on after announcing "enabled".
C1_Witness ==
    \E p \in 1..Len(log[1]) :
        /\ log[1][p] = LineEv(2, 1, TRUE)
        /\ enable[2] = 1
        /\ power_state[3] = "enabled"

\* C2: a failed attribute write is the last thing its call does: the call
\* returns Err, the node's line is not accessed, and the nodes the call has
\* already gone through keep the attribute and line values it gave them.
C2_AttrFailureAborts ==
    \A t \in Tasks : \A p \in 1..Len(log[t]) :
        (log[t][p].ev = "attr" /\ ~log[t][p].ok) =>
            /\ p = Len(log[t])
            /\ pc[t] = "done"
            /\ result[t] = "Err"
            /\ \A q \in 1..Len(log[t]) :
                 (SameCall(log[t], q, p) /\ log[t][q].ev = "line") =>
                    /\ log[t][q].n + 1 < log[t][p].n
                    /\ log[t][q].ok
                    /\ enable[log[t][q].n] = log[t][q].v
                    /\ power_state[log[t][q].n + 1] = node_value(log[t][q].v)

\* C2 witness: the write for node 3 failed after nodes 1 and 2 were changed.
C2_Witness ==
    /\ pc[1] = "done" /\ result[1] = "Err" /\ op[1] = "set_power_node"
    /\ node_mask[1] = 15
    /\ Len(log[1]) = 8
    /\ log[1][8] = AttrEv(3, 1, FALSE)
    /\ log[1][4] = LineEv(0, 1, TRUE)
    /\ log[1][7] = LineEv(1, 0, TRUE)

\* C3: inside one call the log is a run of (attribute write, delay, line set)
\* triples, one node at a time, in strictly ascending node order: the line
\* set of node i comes before the attribute write of any node j > i.
C3_SequentialAscending ==
    \A t \in Tasks : \A p \in 1..Len(log[t]) :
        LET lg == log[t]
            k == p - CallStart(lg)
        IN  (lg[p].ev # "call" /\ CallStart(lg) < p) =>
              /\ (k % 3 = 1) => lg[p].ev = "attr"
              /\ (k % 3 = 2) => lg[p].ev = "sleep" /\ lg[p - 1].ev = "attr"
              /\ (k % 3 = 0) => /\ lg[p].ev = "line"
                                /\ lg[p - 2].ev = "attr"
                                /\ lg[p].n + 1 = lg[p - 2].n
              /\ (lg[p].ev = "attr" /\ k > 1) =>
                    /\ lg[p - 1].ev = "line"
                    /\ lg[p - 1].ok
                    /\ lg[p - 1].n + 1 < lg[p].n

\* C3 witness: a call that went through nodes 1, 2 and 4 in that order.
C3_Witness ==
    /\ pc[1] = "done" /\ result[1] = "Ok" /\ node_mask[1] = 11
    /\ Len(log[1]) = 10
    /\ log[1][4].ev = "line" /\ log[1][4].n = 0
    /\ log[1][5].ev = "attr" /\ log[1][5].n = 2
    /\ log[1][8].ev = "attr" /\ log[1][8].n = 4

\* C4: a failed line set is the last thing its call does: the call returns
\* Err, and the nodes it has already gone through keep their new values.
C4_LineFailureAborts ==
    \A t \in Tasks : \A p \in 1..Len(log[t]) :
        (log[t][p].ev = "line" /\ ~log[t][p].ok /\ log[t][p].n \in LineIdx) =>
            /\ p = Len(log[t])
            /\ pc[t] = "done"
            /\ result[t] = "Err"
            /\ \A q \in 1..(p - 1) :
                 (SameCall(log[t], q, p) /\ log[t][q].ev = "line") =>
                    /\ log[t][q].n < log[t][p].n
                    /\ log[t][q].ok
                    /\ enable[log[t][q].n] = log[t][q].v
                    /\ power_state[log[t][q].n + 1] = node_value(log[t][q].v)

\* C4 witness: the line set of node 2 failed after node 1 was switched on.
C4_Witness ==
    /\ pc[1] = "done" /\ result[1] = "Err" /\ op[1] = "set_power_node"
    /\ Len(log[1]) = 7
    /\ log[1][7] = LineEv(1, 1, FALSE)
    /\ log[1][4] = LineEv(0, 1, TRUE)
    /\ enable[0] = 1
    /\ \E m \in 0..MaxMask : node_mask[1] = m /\ BitOf(m, 2) = 1

\* The set_power_node calls and the waits of at least a second in lg.
ResetTrace(lg) ==
    LET Kept(e) == e.ev = "call" \/ (e.ev = "sleep" /\ e.n >= 1000)
    IN  SelectSeq(lg, Kept)

\* What reset_node(NodeId(k)) is to do: off, wait, on, for the bit of k only.
ResetPlan(k) ==
    LET mask == Pow2(k - 1)
    IN  <<CallEv(0, mask), SleepEv(ResetMs), CallEv(mask, mask)>>

\* The first set_power_node call of lg has a failed step.
FirstCallFailed(lg) ==
    \E p \in 1..Len(lg) :
        /\ ~lg[p].ok
        /\ \A r \in 1..p : lg[r].ev # "sleep" \/ lg[r].n < 1000

\* C5 as stated: every reset_node(NodeId(k)) that has returned made the call
\* (0, 1<<(k-1)), waited at least a second and made the call (mask, mask).
C5_AlwaysOffWaitOn ==
    \A t \in Tasks :
        (op[t] = "reset_node" /\ pc[t] = "done") =>
            ResetTrace(log[t]) = ResetPlan(log[t][1].n)

\* C5, amended: reset_node(NodeId(k)) makes the call (0, 1<<(k-1)) and, only
\* if that call returned Ok, waits at least a second and makes the call
\* (mask, mask); if the first call fails it returns Err after that one call.
\* The calls and the wait come in that order and no other mask bit appears.
C5_OffWaitOnUnlessOffFails ==
    \A t \in Tasks :
        op[t] = "reset_node" =>
            LET lg == log[t]
                k == lg[1].n
                plan == ResetPlan(k)
                trace == ResetTrace(lg)
            IN  /\ lg[1].ev = "reset" /\ k \in Nodes
                /\ Len(trace) \in {1, 3}
                /\ trace = SubSeq(plan, 1, Len(trace))
                /\ plan[2].n >= 1000
                /\ pc[t] = "done" =>
                     IF FirstCallFailed(lg)
                     THEN Len(trace) = 1 /\ result[t] = "Err"
                     ELSE Len(trace) = 3
                /\ (pc[t] = "done" /\ result[t] = "Ok") => Len(trace) = 3

\* C5 witness: reset_node(NodeId(3)) returned Ok: off, wait, on for mask 4.
C5_Witness ==
    /\ op[1] = "reset_node" /\ pc[1] = "done" /\ result[1] = "Ok"
    /\ log[1][1] = ResetEv(3)
    /\ ResetTrace(log[1]) = <<CallEv(0, 4), SleepEv(1000), CallEv(4, 4)>>
    /\ enable[2] = 1

\* A reset_node whose off phase has failed and which has returned.
OffPhaseFailed(t) ==
    /\ op[t] = "reset_node"
    /\ pc[t] = "done"
    /\ FirstCallFailed(log[t])

\* No step of the on phase is in lg: no "enabled" write and no line-on set.
NoOnPhase(lg) ==
    \A p \in 1..Len(lg) :
        /\ ~(lg[p].ev = "attr" /\ lg[p].tok = "enabled")
        /\ ~(lg[p].ev = "line" /\ lg[p].v = 1)
        /\ ~(lg[p].ev = "sleep" /\ lg[p].n >= 1000)

\* C6 as stated: when the off phase of reset_node fails, reset_node returns
\* the error, nothing of the on phase has run and the node's line is off.
C6_OffFailureLeavesNodeOff ==
    \A t \in Tasks :
        OffPhaseFailed(t) =>
            /\ result[t] = "Err"
            /\ NoOnPhase(log[t])
            /\ enable[log[t][1].n - 1] = 0

\* C6, amended: when the off phase of reset_node fails, reset_node returns
\* the error and nothing of the on phase has run; the call has set no line,
\* so the node's enable line keeps the value it had before the call (a node
\* that was on stays on).
C6_OffFailureLeavesLineAsItWas ==
    [][\A t \in Tasks :
        /\ (op'[t] = "reset_node" /\ rphase'[t] = "off"
                /\ pc'[t] # "reset_sleep") => enable' = enable
        /\ OffPhaseFailed(t)' =>
            /\ result'[t] = "Err"
            /\ NoOnPhase(log'[t])
            /\ \A p \in 1..Len(log'[t]) :
                   log'[t][p].ev = "line" => ~log'[t][p].ok]_vars

\* C6 witness: the off phase of reset_node(NodeId(2)) failed at its attribute
\* write and node 2 is still on.
C6_Witness ==
    /\ OffPhaseFailed(1)
    /\ log[1] = <<ResetEv(2), CallEv(0, 2), AttrEv(2, 0, FALSE)>>
    /\ enable[1] = 1

\* C7: when set_power_node(state, mask) has returned Ok, every node whose
\* mask bit is set has its line equal to its bit of state, and its attribute
\* "enabled" for 1 and "disabled" for 0.
C7_MaskedNodesFollowState ==
    \A t \in Tasks :
        (pc[t] = "done" /\ result[t] = "Ok") =>
            \A n \in 1..4 :
                BitOf(node_mask[t], n - 1) = 1 =>
                    /\ enable[n - 1] = BitOf(node_states[t], n - 1)
                    /\ power_state[n] =
                         (IF BitOf(node_states[t], n - 1) = 1
                          THEN "enabled" ELSE "disabled")

\* C7 witness: set_power_node(0b0101, 0b1111) returned Ok with nodes 1 and 3
\* on and nodes 2 and 4 off.
C7_Witness ==
    /\ pc[1] = "done" /\ result[1] = "Ok" /\ op[1] = "set_power_node"
    /\ node_states[1] = 5 /\ node_mask[1] = 15
    /\ enable = [i \in 0..3 |-> IF i \in {0, 2} THEN 1 ELSE 0]
    /\ power_state = [n \in 1..4 |-> IF n \in {1, 3} THEN "enabled" ELSE "disabled"]

\* Number of set bits of x.
RECURSIVE PopCount(_)
PopCount(x) == IF x = 0 THEN 0 ELSE (x % 2) + PopCount(x \div 2)

\* The events of kind ev in lg, in order.
EventsOf(lg, ev) ==
    LET Kept(e) == e.ev = ev
    IN  SelectSeq(lg, Kept)

\* The pairs of u whose index is one of the four node bits.
ValidPairs(u) ==
    LET Valid(pair) == pair[1] \in 0..3
    IN  SelectSeq(u, Valid)

\* C8: for every 8-bit state and mask, the pairs the decoder hands to
\* set_power_node for the node bits are popcount(mask & 0x0F) many, each with
\* a set mask bit and the value of its bit of state, in strictly ascending
\* index order; a call that returns Ok has written the attribute and set the
\* line of exactly those nodes, once each and in that order.
C8_DecoderPairs ==
    \A t \in Tasks :
        LET state == node_states[t]
            mask == node_mask[t]
            pairs == ValidPairs(updates[t])
            lines == EventsOf(log[t], "line")
            attrs == EventsOf(log[t], "attr")
            count == PopCount(mask % 16)
        IN  /\ (op[t] = "set_power_node" /\ Len(log[t]) = 1) =>
                /\ Len(pairs) = count
                /\ \A i \in 1..Len(pairs) :
                     /\ BitOf(mask, pairs[i][1]) = 1
                     /\ pairs[i][2] = BitOf(state, pairs[i][1])
                     /\ i > 1 => pairs[i - 1][1] < pairs[i][1]
            /\ (op[t] = "set_power_node" /\ pc[t] = "done" /\ result[t] = "Ok") =>
                /\ Len(lines) = count /\ Len(attrs) = count
                /\ \A i \in 1..Len(lines) :
                     /\ BitOf(mask, lines[i].n) = 1
                     /\ lines[i].v = BitOf(state, lines[i].n)
                     /\ attrs[i].n = lines[i].n + 1
                     /\ attrs[i].v = lines[i].v
                     /\ i > 1 => lines[i - 1].n < lines[i].n

\* C8 witness: state 0b10100110 with mask 0b11001011 decoded to the three
\* pairs (0, 0), (1, 1), (3, 0).
C8_Witness ==
    /\ node_states[1] = 166 /\ node_mask[1] = 203
    /\ Len(log[1]) = 1
    /\ updates[1] = <<<<0, 0>>, <<1, 1>>, <<3, 0>>>>

\* C9: with a mask that has bits 4..7 set, no pair, no attribute write and no
\* line access is for an index outside 0..3, the array is never indexed out of
\* range, and the high bits are ignored: a call none of whose steps fails
\* returns Ok, having acted on the nodes of the low four mask bits.
C9_HighMaskBitsIgnored ==
    \A t \in Tasks :
        node_mask[t] >= 16 =>
            /\ \A i \in 1..Len(updates[t]) : updates[t][i][1] \in 0..3
            /\ \A p \in 1..Len(log[t]) :
                 /\ log[t][p].ev = "attr" => log[t][p].n \in 1..4
                 /\ log[t][p].ev = "line" => log[t][p].n \in 0..3
            /\ result[t] # "Panic"
            /\ (pc[t] = "done" /\ \A p \in 1..Len(log[t]) : log[t][p].ok) =>
                 /\ result[t] = "Ok"
                 /\ Len(EventsOf(log[t], "line")) = PopCount(node_mask[t] % 16)

\* C9 witness: mask 0b11110101 returned Ok after the line sets of nodes 1 and 3.
C9_Witness ==
    /\ node_mask[1] = 245 /\ node_states[1] = 255
    /\ pc[1] = "done" /\ result[1] = "Ok"
    /\ EventsOf(log[1], "line") = <<LineEv(0, 1, TRUE), LineEv(2, 1, TRUE)>>

\* C10: when set_power_node(state, mask) has returned Ok twice in a row, the
\* lines and attributes after the second call are those after the first, and
\* the second call has made the same attribute writes, delays and line sets
\* as the first: one full triple per masked node.
C10_RepeatIsIdempotent ==
    \A t \in Tasks :
        (prev[t].set /\ pc[t] = "done" /\ result[t] = "Ok") =>
            /\ enable = prev[t].enable
            /\ power_state = prev[t].power_state
            /\ log[t] = prev[t].log
            /\ Len(log[t]) = 1 + 3 * PopCount(node_mask[t] % 16)

\* C10 witness: set_power_node(0b0110, 0b1111) returned Ok for the second
\* time, after twelve more steps on nodes already in the desired state.
C10_Witness ==
    /\ prev[1].set /\ pc[1] = "done" /\ result[1] = "Ok"
    /\ node_states[1] = 6 /\ node_mask[1] = 15
    /\ Len(log[1]) = 13
    /\ Len(prev[1].log) = 13

\* What a set_power_node(state, mask) none of whose steps fails does, from
\* bit n on: worked out from state and mask alone.
RECURSIVE PlannedFrom(_, _, _)
PlannedFrom(state, mask, n) ==
    IF n > 3 THEN <<>>
    ELSE (IF BitOf(mask, n) = 1
          THEN <<AttrEv(n + 1, BitOf(state, n), TRUE), SleepEv(100),
                 LineEv(n, BitOf(state, n), TRUE)>>
          ELSE <<>>) \o PlannedFrom(state, mask, n + 1)

PlannedLog(state, mask) == <<CallEv(state, mask)>> \o PlannedFrom(state, mask, 0)

\* Every step lg records succeeded.
FailureFree(lg) == \A p \in 1..Len(lg) : lg[p].ok

\* C11: whatever calls came before and whatever the lines and attributes
\* hold, a set_power_node(state, mask) none of whose steps fails issues the
\* sequence of attribute writes, delays and line sets that (state, mask)
\* alone determines, and the controller's fields stay as constructed.
C11_SequenceFromArgumentsOnly ==
    /\ \A t \in Tasks :
        (op[t] = "set_power_node" /\ FailureFree(log[t])) =>
            LET plan == PlannedLog(node_states[t], node_mask[t])
            IN  /\ Len(log[t]) <= Len(plan)
                /\ log[t] = SubSeq(plan, 1, Len(log[t]))
                /\ pc[t] = "done" => log[t] = plan
    /\ held = LineIdx
    /\ sysfs_power = SYS_LED
    /\ sysfs_reset = STATUS_LED

\* C11 witness: set_power_node(0b0010, 0b1010) has returned Ok a second time,
\* on nodes already in the desired state, with the full sequence again.
C11_Witness ==
    /\ op[1] = "set_power_node" /\ pc[1] = "done" /\ result[1] = "Ok"
    /\ prev[1].set
    /\ node_states[1] = 2 /\ node_mask[1] = 10
    /\ log[1] = <<CallEv(2, 10),
                  AttrEv(2, 1, TRUE), SleepEv(100), LineEv(1, 1, TRUE),
                  AttrEv(4, 0, TRUE), SleepEv(100), LineEv(3, 0, TRUE)>>

\* The step of lg that failed: with the ? operator it is the last one.
FailedStep(lg) == lg[Len(lg)]

\* Task t has got an error from one of the four operations.
OperationFailed(t) ==
    /\ op[t] \in {"set_power_node", "reset_node", "power_led", "status_led"}
    /\ pc[t] = "done"
    /\ result[t] = "Err"

\* C12 as stated: the error of a failed attribute write carries the node's
\* attribute path, that of a failed line set the line's name, and that of a
\* failed indicator write the indicator's name.
C12_FailuresNamePathOrLine ==
    \A t \in Tasks :
        OperationFailed(t) =>
            LET e == FailedStep(log[t])
            IN  /\ e.ev = "attr" => errctx[t] = sys_path(e.n)
                /\ e.ev = "line" => errctx[t] = PortName(e.n)
                /\ e.ev = "led" =>
                     errctx[t] = (IF op[t] = "power_led" THEN SYS_LED
                                  ELSE STATUS_LED)

\* C12, amended: a failure of power_led or status_led is returned with the
\* indicator's primary path constant attached (SYS_LED, STATUS_LED), whichever
\* path was resolved; a failure of set_power_node or reset_node is returned
\* as the error of the failed attribute write or line set, to which the
\* controller attaches no path and no line name.
C12_OnlyIndicatorFailuresHaveContext ==
    \A t \in Tasks :
        OperationFailed(t) =>
            LET e == FailedStep(log[t])
            IN  /\ ~e.ok
                /\ e.ev \in {"attr", "line", "led"}
                /\ e.ev \in {"attr", "line"} =>
                     /\ op[t] \in {"set_power_node", "reset_node"}
                     /\ errctx[t] = NoContext
                /\ e.ev = "led" =>
                     /\ op[t] \in {"power_led", "status_led"}
                     /\ op[t] = "power_led" =>
                            errctx[t] = "/sys/class/leds/fp::power/brightness"
                     /\ op[t] = "status_led" =>
                            errctx[t] = "/sys/class/leds/fp::status/brightness"

\* C12 witness: set_power_node(0b0100, 0b0100) failed at the attribute write
\* of node 3 and its error carries no context.
C12_Witness ==
    /\ OperationFailed(1) /\ op[1] = "set_power_node"
    /\ log[1] = <<CallEv(4, 4), AttrEv(3, 1, FALSE)>>
    /\ log[1][2].path = "/sys/bus/platform/devices/node3-power/state"
    /\ errctx[1] = NoContext

\* The existence checks the construction that lg records has made.
ChecksOf(lg) == EventsOf(lg, "exists")

\* C13: the resolved indicator path is the fallback when the primary path
\* does not exist and the primary when it exists, whether or not the fallback
\* exists; a construction that has its four lines always resolves both paths,
\* with one existence check each, of the primary path.
C13_LedPathResolution ==
    /\ ctl = "ok" =>
        /\ sysfs_power =
             (IF "/sys/class/leds/fp::power/brightness" \in exists
              THEN "/sys/class/leds/fp::power/brightness"
              ELSE "/sys/class/leds/fp:sys/brightness")
        /\ sysfs_reset =
             (IF "/sys/class/leds/fp::status/brightness" \in exists
              THEN "/sys/class/leds/fp::status/brightness"
              ELSE "/sys/class/leds/fp:reset/brightness")
    /\ \A t \in Tasks :
        op[t] = "new" =>
            LET checks == ChecksOf(log[t])
                requests == EventsOf(log[t], "request")
            IN  /\ (Len(requests) = 4 /\ FailureFree(requests)) =>
                     /\ result[t] = "Ok"
                     /\ Len(checks) = 2
                     /\ checks[1].path = SYS_LED
                     /\ checks[1].v = 1 <=> SYS_LED \in exists
                     /\ checks[2].path = STATUS_LED
                     /\ checks[2].v = 1 <=> STATUS_LED \in exists
                /\ result[t] = "Err" => checks = <<>>

\* C13 witness: neither power path exists and the fallback was taken; both
\* status paths exist and the primary was taken.
C13_Witness ==
    /\ ctl = "ok"
    /\ exists = {STATUS_LED, STATUS_LED_2_0_5}
    /\ sysfs_power = SYS_LED_2_0_5
    /\ sysfs_reset = STATUS_LED
    /\ Len(ChecksOf(log[1])) = 2

\* C14: there is a controller only if the device of the variant flag was
\* opened and the four names were found and requested as outputs, and it then
\* holds four handles; when the device cannot be opened or a name is missing
\* new returns an error and there is no controller; no operation ever runs
\* without a controller that holds its four handles.
C14_ConstructionAllOrNothing ==
    /\ ctl = "ok" <=> held = 0..3
    /\ ctl # "ok" => held = {} /\ sysfs_power = "" /\ sysfs_reset = ""
    /\ \A t \in Tasks :
        /\ op[t] = "new" =>
            LET lg == log[t]
                chip == IF lg[1].n = 1 THEN "/dev/gpiochip1" ELSE "/dev/gpiochip2"
                gets == EventsOf(lg, "get")
                requests == EventsOf(lg, "request")
            IN  /\ lg[2].ev = "open" /\ lg[2].path = chip
                /\ ctl = "ok" <=> result[t] = "Ok"
                /\ ctl = "err" <=> result[t] = "Err"
                /\ result[t] = "Ok" =>
                     /\ chip \in openable /\ lg[2].ok
                     /\ {"node1-en", "node2-en", "node3-en", "node4-en"}
                            \subseteq line_names
                     /\ Len(gets) = 4 /\ Len(requests) = 4
                     /\ \A i \in 1..4 :
                            /\ gets[i].ok /\ gets[i].n = i - 1
                            /\ gets[i].tok = PortName(i - 1)
                            /\ requests[i].ok /\ requests[i].n = i - 1
                /\ (chip \notin openable \/ ~(PortNames \subseteq line_names)) =>
                     result[t] = "Err"
        /\ op[t] \notin {"none", "new"} => ctl = "ok" /\ Cardinality(held) = 4
        /\ pc[t] # "idle" => ctl = "ok" /\ Cardinality(held) = 4

\* C14 witness: the device was opened but node3-en is not in its table: new
\* returned an error after that lookup and there is no controller.
C14_Witness ==
    /\ op[1] = "new" /\ result[1] = "Err" /\ ctl = "err" /\ held = {}
    /\ line_names = {PORT1_EN, PORT2_EN, PORT4_EN}
    /\ Len(log[1]) = 5
    /\ log[1][5] = GetEv(2, "node3-en", FALSE)
    /\ errctx[1] = "cannot find PORT3_EN"

\* ------------------------------------------------------ two concurrent calls

\* The arguments of two concurrent calls range over 0..MaxConc.
MaxConc == 3

\* A built controller shared by two tasks; the nodes are all off or all on,
\* lines and attributes in agreement.
InitConc ==
    /\ \E b \in {0, 1} :
        /\ enable = [i \in LineIdx |-> b]
        /\ power_state = [n \in Nodes |-> node_value(b)]
    /\ pc = [t \in Tasks |-> "idle"]
    /\ op = [t \in Tasks |-> "none"]
    /\ node_states = [t \in Tasks |-> 0]
    /\ node_mask = [t \in Tasks |-> 0]
    /\ updates = [t \in Tasks |-> <<>>]
    /\ log = [t \in Tasks |-> <<>>]
    /\ result = [t \in Tasks |-> "Pending"]
    /\ bits = [t \in Tasks |-> 0]
    /\ rphase = [t \in Tasks |-> "none"]
    /\ prev = [t \in Tasks |-> NoPrev]
    /\ Constructed

\* Task t calls set_power_node(s, m) on the shared controller (&self): its
\* one call, whatever the other task is doing.
SpawnSetPowerNode(t) ==
    /\ ctl = "ok"
    /\ pc[t] = "idle"
    /\ op[t] = "none"
    /\ \E s \in 0..MaxConc, m \in 0..MaxConc :
        set_power_node(t, "none", s, m, <<>>)
    /\ op' = [op EXCEPT ![t] = "set_power_node"]
    /\ UNCHANGED <<hw, rphase, bits, prev>>
    /\ UNCHANGED ctlvars

StepConc(t) ==
    \/ SpawnSetPowerNode(t)
    \/ SetMode(t)
    \/ Sleep(t)
    \/ SetValues(t)

NextConc == \E t \in Tasks : StepConc(t)

SpecConc == InitConc /\ [][NextConc]_vars

\* Node n's attribute holds the token of its line's value.
Agrees(n) == power_state[n] = node_value(enable[n - 1])

\* Both tasks' calls of set_power_node have returned Ok.
BothReturnedOk ==
    \A t \in Tasks :
        op[t] = "set_power_node" /\ pc[t] = "done" /\ result[t] = "Ok"

\* Both calls' masks have node n.
Overlap(n) == \A t \in Tasks : BitOf(node_mask[t], n - 1) = 1

\* C15: calls are not serialised: after two concurrent set_power_node calls
\* have both returned Ok, a node's line can hold the value of one call while
\* its attribute holds the token of the other; this happens only to a node
\* that both masks have and for which the calls want different values.
C15_OverlappingCallsInterleave ==
    BothReturnedOk =>
        \A n \in Nodes :
            ~Agrees(n) =>
                /\ Overlap(n)
                /\ \E t \in Tasks, u \in Tasks :
                    /\ t # u
                    /\ BitOf(node_states[t], n - 1) # BitOf(node_states[u], n - 1)
                    /\ enable[n - 1] = BitOf(node_states[t], n - 1)
                    /\ power_state[n] = node_value(BitOf(node_states[u], n - 1))

\* C15 witness: task 1 switched node 1 on, task 2 switched it off, both
\* returned Ok; the line is high and the last token written is "disabled".
C15_Witness ==
    /\ BothReturnedOk
    /\ node_mask = <<1, 1>> /\ node_states = <<1, 0>>
    /\ FailureFree(log[1]) /\ FailureFree(log[2])
    /\ enable[0] = 1
    /\ power_state[1] = "disabled"

\* No node is in both calls' masks.
Disjoint == \A n \in Nodes : ~Overlap(n)

\* C16: when two concurrent set_power_node calls with disjoint masks have
\* both returned Ok, every masked node has its line and its attribute at the
\* value asked for by the one call that masks it, and each call did, per node,
\* the attribute write, the delay and the line set in this order.
C16_DisjointMasksDoNotInterfere ==
    (BothReturnedOk /\ Disjoint) =>
        \A t \in Tasks :
            /\ log[t] = PlannedLog(node_states[t], node_mask[t])
            /\ \A n \in Nodes :
                BitOf(node_mask[t], n - 1) = 1 =>
                    /\ enable[n - 1] = BitOf(node_states[t], n - 1)
                    /\ power_state[n] = node_value(BitOf(node_states[t], n - 1))

\* C16 witness: starting all off, task 1 switched node 1 on and task 2
\* switched node 2 on, in any interleaving of their steps; both returned Ok.
C16_Witness ==
    /\ BothReturnedOk
    /\ node_mask = <<1, 2>> /\ node_states = <<1, 2>>
    /\ enable = [i \in LineIdx |-> IF i < 2 THEN 1 ELSE 0]
    /\ power_state = [n \in Nodes |-> IF n < 3 THEN "enabled" ELSE "disabled"]

\* ------------------------------------------------------------ cancellation

\* The task awaiting the call was cancelled; written tells whether a pending
\* attribute write still reached the attribute.
CancelEv(written) ==
    [ev |-> "cancel", n |-> 0, v |-> IF written THEN 1 ELSE 0, tok |-> "",
     path |-> "", ok |-> TRUE]

\* A task awaits set_power_node(s, m); prev keeps the lines and attributes
\* as the call found them.
AwaitSetPowerNode(t) ==
    /\ ctl = "ok"
    /\ pc[t] = "idle"
    /\ op[t] = "none"
    /\ \E s \in 0..MaxStates, m \in 0..MaxMask :
        set_power_node(t, "none", s, m, <<>>)
    /\ op' = [op EXCEPT ![t] = "set_power_node"]
    /\ prev' = [prev EXCEPT ![t] = [log |-> <<>>, enable |-> enable,
                                   power_state |-> power_state, set |-> FALSE]]
    /\ UNCHANGED <<hw, rphase, bits>>
    /\ UNCHANGED ctlvars

\* A cancellation that lets the call run on to the line set of its node.
Cancel_after_line_set(t) ==
    /\ pc[t] \in {"set_mode", "sleep", "reset_sleep"}
    /\ IF pc[t] = "sleep"
       THEN /\ enable' = [enable EXCEPT ![Head(updates[t])[1]] = Head(updates[t])[2]]
            /\ power_state' = power_state
            /\ log' = [log EXCEPT ![t] = Append(@, CancelEv(FALSE))]
       ELSE /\ UNCHANGED hw
            /\ log' = [log EXCEPT ![t] = Append(@, CancelEv(FALSE))]
    /\ pc' = [pc EXCEPT ![t] = "cancelled"]
    /\ result' = [result EXCEPT ![t] = "Cancelled"]
    /\ UNCHANGED <<op, node_states, node_mask, updates, bits, rphase, prev>>
    /\ UNCHANGED ctlvars

\* The future of the call is dropped at one of its awaits: set_mode(..).await,
\* sleep(100 ms).await or reset_node's sleep(1 s).await.  The line set has no
\* await of its own.  The attribute write pending in set_mode may or may not
\* still reach the attribute; nothing else of the call runs.
Cancel(t) ==
    /\ pc[t] \in {"set_mode", "sleep", "reset_sleep"}
    /\ IF pc[t] = "set_mode"
       THEN LET state == Head(updates[t])[2]
                node_id == Head(updates[t])[1] + 1
            IN  \E written \in BOOLEAN :
                 /\ power_state' =
                      IF written /\ node_id \in Nodes
                      THEN [power_state EXCEPT ![node_id] = node_value(state)]
                      ELSE power_state
                 /\ log' = [log EXCEPT ![t] = Append(@, CancelEv(written))]
       ELSE /\ power_state' = power_state
            /\ log' = [log EXCEPT ![t] = Append(@, CancelEv(FALSE))]
    /\ pc' = [pc EXCEPT ![t] = "cancelled"]
    /\ result' = [result EXCEPT ![t] = "Cancelled"]
    /\ UNCHANGED <<enable, op, node_states, node_mask, updates, bits, rphase, prev>>
    /\ UNCHANGED ctlvars

NextCancel ==
    \/ AwaitSetPowerNode(1)
    \/ SetMode(1)
    \/ Sleep(1)
    \/ SetValues(1)
    \/ CallResetNode(1)
    \/ ResetSleep(1)
    \/ Cancel(1)

SpecCancel == InitConc /\ [][NextCancel]_vars

\* The number of nodes the call that lg records has completed.
Completed(lg) == Len(EventsOf(lg, "line"))

\* C17: when the task awaiting set_power_node is cancelled at one of its
\* suspension points, the masked nodes the call had completed have the
\* attribute and line values it applied, the masked nodes after the one in
\* flight have the attribute and line the call found, and the node in flight
\* has the line the call found and either the attribute the call found or the
\* token the call writes.
C17_CancellationKeepsCompletedNodes ==
    \A t \in Tasks :
        (pc[t] = "cancelled" /\ op[t] = "set_power_node") =>
            LET plan == bit_iterator(node_states[t], node_mask[t])
                k == Completed(log[t])
            IN  /\ k < Len(plan)
                /\ Len(updates[t]) = Len(plan) - k
                /\ \A j \in 1..Len(plan) :
                    LET idx == plan[j][1]
                        state == plan[j][2]
                    IN  idx \in LineIdx =>
                        /\ j <= k =>
                             /\ enable[idx] = state
                             /\ power_state[idx + 1] = node_value(state)
                        /\ j = k + 1 =>
                             /\ enable[idx] = prev[t].enable[idx]
                             /\ power_state[idx + 1] \in
                                  {prev[t].power_state[idx + 1], node_value(state)}
                        /\ j > k + 1 =>
                             /\ enable[idx] = prev[t].enable[idx]
                             /\ power_state[idx + 1] = prev[t].power_state[idx + 1]

\* C17 witness: set_power_node(7, 7) on a board that was all off is cancelled
\* in the delay of node 2: node 1 is on, node 2 has its attribute written and
\* its line low, node 3 is as it was.
C17_Witness ==
    /\ pc[1] = "cancelled" /\ op[1] = "set_power_node"
    /\ node_states[1] = 7 /\ node_mask[1] = 7
    /\ Completed(log[1]) = 1
    /\ enable = [i \in LineIdx |-> IF i = 0 THEN 1 ELSE 0]
    /\ power_state = [n \in Nodes |-> IF n <= 2 THEN "enabled" ELSE "disabled"]

\* A step changes the line or the attribute of node n.
Changed(n) == enable'[n - 1] # enable[n - 1] \/ power_state'[n] # power_state[n]

\* C18: every step of set_power_node(state, mask) leaves alone the line and
\* the attribute of each node whose mask bit is 0, for every state, and every
\* step of reset_node(k) those of each node other than k; neither writes to an
\* indicator path.
C18_UnmaskedNodesUntouched ==
    [][/\ led' = led
       /\ \A t \in Tasks :
            \A p \in 1..Len(log'[t]) :
                log'[t][p].ev # "led" /\ log'[t][p].path \notin LedPaths
       /\ \A n \in Nodes :
            Changed(n) =>
                \E t \in Tasks :
                    /\ op[t] \in {"set_power_node", "reset_node"}
                    /\ BitOf(node_mask[t], n - 1) = 1
                    /\ op[t] = "reset_node" => log[t][1] = ResetEv(n)]_vars

\* C18 witness: set_power_node(0b1111, 0b0010) returned Ok on a board that
\* was all off: node 2 is on, nodes 1, 3 and 4 are off as before.
C18_Witness ==
    /\ op[1] = "set_power_node" /\ pc[1] = "done" /\ result[1] = "Ok"
    /\ node_states[1] = 15 /\ node_mask[1] = 2
    /\ enable = [i \in LineIdx |-> IF i = 1 THEN 1 ELSE 0]
    /\ power_state = [n \in Nodes |-> IF n = 2 THEN "enabled" ELSE "disabled"]
    /\ led = [p \in LedPaths |-> ""]

\* ------------------------------------------------- calls one after another

\* The number of calls a caller makes one after another.
MaxCalls == 2

\* A built controller on a board whose lines are all low or all high and
\* whose attributes all hold the same token, which may be the other one.
InitSeq ==
    /\ \E b \in {0, 1} : enable = [i \in LineIdx |-> b]
    /\ \E tok \in {"enabled", "disabled"} : power_state = [n \in Nodes |-> tok]
    /\ pc = [t \in Tasks |-> "idle"]
    /\ op = [t \in Tasks |-> "none"]
    /\ node_states = [t \in Tasks |-> 0]
    /\ node_mask = [t \in Tasks |-> 0]
    /\ updates = [t \in Tasks |-> <<>>]
    /\ log = [t \in Tasks |-> <<>>]
    /\ result = [t \in Tasks |-> "Pending"]
    /\ bits = [t \in Tasks |-> 0]
    /\ rphase = [t \in Tasks |-> "none"]
    /\ prev = [t \in Tasks |-> NoPrev]
    /\ Constructed

\* The number of set_power_node and reset_node calls lg records; a reset_node
\* that has returned Ok made two calls of set_power_node itself.
TopCalls(lg) == Len(EventsOf(lg, "call")) - Len(EventsOf(lg, "reset"))

\* The caller has made no call yet or its last call has returned Ok.
ReturnedOk(t) == pc[t] = "idle" \/ (pc[t] = "done" /\ result[t] = "Ok")

\* The caller's next call is set_power_node(s, m); log[t] goes on recording.
ThenSetPowerNode(t) ==
    /\ ctl = "ok"
    /\ ReturnedOk(t)
    /\ TopCalls(log[t]) < MaxCalls
    /\ \E s \in 0..MaxConc, m \in 0..MaxConc :
        set_power_node(t, "none", s, m, log[t])
    /\ op' = [op EXCEPT ![t] = "set_power_node"]
    /\ rphase' = [rphase EXCEPT ![t] = "none"]
    /\ bits' = [bits EXCEPT ![t] = 0]
    /\ UNCHANGED <<hw, prev>>
    /\ UNCHANGED ctlvars

\* The caller's next call is reset_node(NodeId(k)); log[t] goes on recording.
ThenResetNode(t) ==
    /\ ctl = "ok"
    /\ ReturnedOk(t)
    /\ TopCalls(log[t]) < MaxCalls
    /\ \E k \in Nodes :
        /\ bits' = [bits EXCEPT ![t] = to_bitfield(k)]
        /\ set_power_node(t, "off", to_bitfield(k), to_bitfield(k),
                          Append(log[t], ResetEv(k)))
    /\ op' = [op EXCEPT ![t] = "reset_node"]
    /\ rphase' = [rphase EXCEPT ![t] = "off"]
    /\ UNCHANGED <<hw, prev>>
    /\ UNCHANGED ctlvars

NextSeq ==
    \/ ThenSetPowerNode(1)
    \/ ThenResetNode(1)
    \/ SetMode(1)
    \/ Sleep(1)
    \/ SetValues(1)
    \/ ResetSleep(1)

SpecSeq == InitSeq /\ [][NextSeq]_vars

\* A call that lg records has written node n's attribute or set its line.
ActedUpon(lg, n) ==
    \E p \in 1..Len(lg) :
        \/ lg[p].ev = "attr" /\ lg[p].n = n
        \/ lg[p].ev = "line" /\ lg[p].n = n - 1

\* Node n's attribute is "enabled" with its line on or "disabled" with it off.
InAgreement(n) ==
    \/ enable[n - 1] = 1 /\ power_state[n] = "enabled"
    \/ enable[n - 1] = 0 /\ power_state[n] = "disabled"

\* The call of task t is between the attribute write and the line set of
\* node n.
BetweenWriteAndSet(t, n) ==
    /\ pc[t] \in {"sleep", "set_values"}
    /\ Head(updates[t])[1] = n - 1

LedCall(t) == pc[t] = "idle" /\ pc'[t] = "done"

\* C20: once the controller is built no step changes its two indicator paths,
\* also when an indicator path appears or disappears; a power_led or
\* status_led call makes one write, of "1" or "0", to the path new resolved
\* for that indicator, makes no existence check, and leaves every enable line
\* and every power-state attribute as it was.
C20_IndicatorPathsFixed ==
    [][/\ ctl = "ok" =>
            /\ ctl' = "ok" /\ held' = held
            /\ sysfs_power' = sysfs_power
            /\ sysfs_reset' = sysfs_reset
       /\ \A t \in Tasks :
            LedCall(t) =>
                /\ op'[t] \in {"power_led", "status_led"}
                /\ Len(log'[t]) = 1
                /\ log'[t][1].ev = "led"
                /\ log'[t][1].tok \in {"1", "0"}
                /\ log'[t][1].path =
                     (IF op'[t] = "power_led" THEN sysfs_power ELSE sysfs_reset)
                /\ log'[t][1].ok => led'[log'[t][1].path] = log'[t][1].tok
                /\ \A p \in LedPaths \ {log'[t][1].path} : led'[p] = led[p]
                /\ exists' = exists
                /\ enable' = enable
                /\ power_state' = power_state]_vars

\* C20 witness: new took the fallback power path because the primary was
\* missing; the primary has appeared since, and power_led(true) has written
\* "1" to the fallback and nothing to the primary.
C20_Witness ==
    /\ ctl = "ok"
    /\ sysfs_power = SYS_LED_2_0_5
    /\ SYS_LED \in exists
    /\ op[1] = "power_led" /\ pc[1] = "done" /\ result[1] = "Ok"
    /\ log[1] = <<LedEv(SYS_LED_2_0_5, "1", TRUE)>>
    /\ led[SYS_LED_2_0_5] = "1"
    /\ led[SYS_LED] = ""

====
